---- MODULE Spec2Model ----
(***************************************************************************)
(* Model of the real-time layer of the CMLRE ocean research platform:      *)
(*   - AITrainingService (server/services/ai-training.ts, lines 47-292):   *)
(*     simulated training jobs driven by one setInterval per job and a     *)
(*     setTimeout for the validation phase;                                *)
(*   - WebSocketService (same file, lines 309-580): the client registry,   *)
(*     subscriptions, broadcast / sendToClient and the heartbeat.          *)
(* Time is in milliseconds, estimatedTimeRemaining in seconds.             *)
(***************************************************************************)
EXTENDS Integers, Sequences, FiniteSets, TLC

\* ------------------------------------------------------------------ bounds
MaxJobs == 2
MaxEpochs == 3

\* inputs of startTraining: datasetSize / batchSize pairs give
\* totalBatches 1, 2, 5 and 30 (30: the tick period 4000 ms is shorter than
\* the validation delay); all divide 120 so that the estimate is a whole
\* number of seconds
DatasetSizes == {10, 15, 50, 300}
BatchSizes == {10}

\* connections accepted in one run: in the runs without a clock (SpecWs)
\* and in the runs with clock and heartbeat (SpecBeat)
MaxSockets == 3
MaxBeatSockets == 1

\* connections accepted in the runs with failing transports (SpecFault)
MaxFaultSockets == 2

\* the end of the simulated clock (ms)
MaxTime == 60000

\* the clock advances by one of these delays (ms)
Delays == {15000}

\* channel names used by clients and broadcasters; NoChannel is the absent
\* (or empty, equally falsy) channel argument of broadcast
ChannelNames == {"x", "all"}
NoChannel == ""
BroadcastChannels == {NoChannel, "x", "alerts"}

\* --------------------------------------------------------- program constants
EpochDuration == 120000
SettleDelay == 5000
EpochEstimate == 120
HeartbeatPeriod == 15000
HeartbeatTimeout == 30000

JobIds == 1..MaxJobs

VARIABLES
    models,            \* ModelStore: id -> record (storage, external)
    creating,          \* startTraining calls suspended at `await createAiModel`
    trainingProgress,  \* Map<string, TrainingProgress>
    activeTraining,    \* keys of Map<string, NodeJS.Timeout>
    settle,            \* id -> -1 (no validation timeout pending) or the
                       \*   number of interval ticks since it was scheduled
    finalizing,        \* interval callbacks suspended at `await finalizeModel`
    events,            \* id -> sequence of events emitted for the job
    lastCall,          \* the last service call and what it returned
    now,               \* Date.now()
    nextBeat,          \* when the heartbeat interval fires next
    sockets,           \* accepted transports: the id bound in the handlers'
                       \*   closure, readyState, and what the peer did
    clients,           \* Map<string, ConnectedClient>
    broken,            \* transports whose send throws (only SpecFault
                       \*   breaks one: an OPEN transport accepts a string)
    wsOp               \* what the last step sent through the WebSocketService
                       \*   and what the call returned

jobVars == <<models, creating, trainingProgress, activeTraining, settle,
             finalizing, events, lastCall>>

wsVars == <<now, nextBeat, sockets, clients, broken>>

vars == <<models, creating, trainingProgress, activeTraining, settle,
          finalizing, events, lastCall, now, nextBeat, sockets, clients,
          broken, wsOp>>

\* ------------------------------------------------------------------ helpers
\* Math.ceil(a / b) for positive integers
CeilTruncating(a, b) == a \div b
Ceil(a, b) == (a + b - 1) \div b

\* the first job sweeps every configuration, the jobs started after it run
\* a short configuration next to it
FullConfigs == [epochs : 1..MaxEpochs, datasetSize : DatasetSizes, batchSize : BatchSizes]
ShortConfigs == [epochs : {2}, datasetSize : {10}, batchSize : {10}]
Configs(id) == IF id = 1 THEN FullConfigs ELSE ShortConfigs

\* storage.createAiModel assigns the id of the new record
NewModelId == Cardinality(DOMAIN models) + 1

\* what a listener of emit(name, progress) observes at emission time
Snapshot(name, p) ==
    [name |-> name, status |-> p.status, epoch |-> p.epoch,
     currentBatch |-> p.currentBatch,
     estimatedTimeRemaining |-> p.estimatedTimeRemaining]

Emit(id, name, p) == [events EXCEPT ![id] = Append(@, Snapshot(name, p))]

\* batchesRemaining * (batchDuration / 1000), batchDuration = epochDuration / totalBatches
TimeRemainingCountingCurrentEpoch(p) ==
    LET batchesRemaining == (p.totalEpochs - p.epoch) * p.totalBatches
                            + (p.totalBatches - p.currentBatch)
    IN (batchesRemaining * EpochDuration) \div (p.totalBatches * 1000)
TimeRemaining(p) ==
    LET batchesRemaining == (p.totalEpochs - p.epoch - 1) * p.totalBatches
                            + (p.totalBatches - p.currentBatch)
    IN (batchesRemaining * EpochDuration) \div (p.totalBatches * 1000)

\* the interval fires every epochDuration / totalBatches ms, the validation
\* timeout SettleDelay ms after the rollover tick that scheduled it: the
\* (k+1)-th tick after the rollover is due at (k+1) * epochDuration / totalBatches
TickDueBeforeSettle(id) ==
    (settle[id] + 1) * EpochDuration <= SettleDelay * trainingProgress[id].totalBatches

SettleDueBeforeTick(id) ==
    (settle[id] + 1) * EpochDuration >= SettleDelay * trainingProgress[id].totalBatches

\* an interval that clearInterval does not stop
IntervalMayFireUncleared(id) ==
    /\ id \in DOMAIN trainingProgress
    /\ settle[id] >= 0 => TickDueBeforeSettle(id)

IntervalMayFire(id) ==
    /\ id \in activeTraining
    /\ settle[id] >= 0 => TickDueBeforeSettle(id)

\* `progress.currentBatch < progress.totalBatches`
TickLessThanOffByOne(a, b) == a <= b
TickLessThan(a, b) == a < b

\* `progress.currentBatch++`
NextBatchStuck(b) == b
NextBatch(b) == b + 1

\* `clearInterval(...); this.activeTraining.delete(modelId)`
ClearIntervalKept(active, id) == active
ClearIntervalOfAll(active, id) == {}
ClearInterval(active, id) == active \ {id}

\* `progress.currentBatch = 0`
ResetBatchKept(b) == b
ResetBatch(b) == 0

\* `progress.epoch++`
NextEpochStuck(e) == e
NextEpoch(e) == e + 1

\* `progress.epoch >= progress.totalEpochs`
EpochsDoneLate(e, total) == e > total
EpochsDone(e, total) == e >= total

\* ------------------------------------------------- WebSocketService helpers
\* `client.ws.readyState === WebSocket.OPEN`
IsOpen(socks, s) == socks[s].readyState = "OPEN"

\* `!channel || client.subscriptions.has(channel) || client.subscriptions.has('all')`
MatchesExactOnly(channel, subs) == channel = NoChannel \/ channel \in subs
Matches(channel, subs) ==
    channel = NoChannel \/ channel \in subs \/ "all" \in subs

\* broadcast(type, data, channel): the transports the message is sent to;
\* a send that throws is caught inside the loop, per client
BroadcastToAborting(cl, socks, channel) ==
    LET m == {cl[id].ws : id \in {c \in DOMAIN cl : /\ IsOpen(socks, cl[c].ws)
                                                     /\ Matches(channel, cl[c].subscriptions)}}
    IN {s \in m : \A b \in m \cap broken : s < b}
BroadcastTo(cl, socks, channel) ==
    {cl[id].ws : id \in {c \in DOMAIN cl : /\ IsOpen(socks, cl[c].ws)
                                            /\ Matches(channel, cl[c].subscriptions)
                                            /\ cl[c].ws \notin broken}}

\* the value of a call of a function without return statement
Void == [defined |-> FALSE]

\* sentCount is counted and logged; broadcast has no return statement
BroadcastOp(cl, socks, type, channel) ==
    [op |-> "broadcast", type |-> type, channel |-> channel,
     to |-> BroadcastTo(cl, socks, channel),
     sentCount |-> Cardinality(BroadcastTo(cl, socks, channel)),
     ret |-> Void]

\* a message without type (undefined or the empty string)
NoType == ""

\* `type: message.type || 'unknown'`
TypeAsGiven(type) == type
TypeOrUnknown(type) == IF type = NoType THEN "unknown" ELSE type

\* sendToClient(clientId, message): the transport reached and the value returned
SendToClient(cl, socks, id, type) ==
    IF id \notin DOMAIN cl \/ ~ IsOpen(socks, cl[id].ws)
    THEN [type |-> type, to |-> {}, ret |-> FALSE]
    ELSE IF cl[id].ws \in broken
         THEN [type |-> TypeOrUnknown(type), to |-> {}, ret |-> FALSE]
         ELSE [type |-> TypeOrUnknown(type), to |-> {cl[id].ws}, ret |-> TRUE]

\* message.channels.forEach(channel => client.subscriptions.add(channel))
AddChannelsReplacing(subscriptions, channels) == channels
AddChannels(subscriptions, channels) == subscriptions \cup channels

\* data of subscription_confirmed: `channels: Array.from(client.subscriptions)`
ConfirmedChannelsRequestedOnly(client, channels) == channels
ConfirmedChannels(client, channels) == client.subscriptions

\* clients.delete(clientId)
Delete(cl, id) == [c \in DOMAIN cl \ {id} |-> cl[c]]

\* `now - client.lastPing > 30000`
ExpiredLate(t, lastPing) == t - lastPing > HeartbeatTimeout + HeartbeatPeriod
Expired(t, lastPing) == t - lastPing > HeartbeatTimeout

\* outcomes of Math.random().toString(36).substring(7), numbered by the
\* accept that drew the value first: the n-th accept draws a value drawn
\* before (0..n-2) or a new one (n-1)
Suffixes == 0..Len(sockets)

\* generateClientId(): `client_${Date.now()}_${random suffix}`
GenerateClientId(t, r) == <<t, r>>

\* wsOp of a step that sends nothing and returns nothing
NoOp == [op |-> "none"]

\* ------------------------------------------------------------------ Init
WsInit ==
    /\ now = 0
    /\ nextBeat = HeartbeatPeriod
    /\ sockets = <<>>
    /\ clients = <<>>
    /\ broken = {}
    /\ wsOp = NoOp

JobInit ==
    /\ models = <<>>
    /\ creating = <<>>
    /\ trainingProgress = <<>>
    /\ activeTraining = {}
    /\ settle = <<>>
    /\ finalizing = {}
    /\ events = <<>>
    /\ lastCall = [op |-> "none"]

\* ------------------------------------------------------------------ actions
\* startTraining up to `await storage.createAiModel(modelData)`
StartTraining(cfg) ==
    /\ NewModelId <= MaxJobs
    /\ models' = models @@ (NewModelId :> [isActive |-> FALSE, epochs |-> cfg.epochs,
                                           finalized |-> FALSE])
    /\ creating' = creating @@ (NewModelId :> cfg)
    /\ lastCall' = [op |-> "startTraining", id |-> NewModelId]
    /\ UNCHANGED <<trainingProgress, activeTraining, settle, finalizing, events>>
    /\ wsOp' = NoOp
    /\ UNCHANGED wsVars

\* the rest of startTraining and the whole of simulateTraining (no await in it)
StartResume(id) ==
    /\ id \in DOMAIN creating
    /\ LET cfg == creating[id]
           progress == [status |-> "training",
                        epoch |-> 0,
                        totalEpochs |-> cfg.epochs,
                        currentBatch |-> 0,
                        totalBatches |-> Ceil(cfg.datasetSize, cfg.batchSize),
                        estimatedTimeRemaining |-> cfg.epochs * EpochEstimate]
       IN /\ trainingProgress' = trainingProgress @@ (id :> progress)
          /\ events' = events @@ (id :> <<Snapshot("trainingUpdate", progress)>>)
    /\ creating' = [j \in DOMAIN creating \ {id} |-> creating[j]]
    /\ activeTraining' = activeTraining \cup {id}
    /\ settle' = settle @@ (id :> -1)
    /\ lastCall' = [op |-> "startResume", id |-> id]
    /\ wsOp' = BroadcastOp(clients, sockets, "training_update", NoChannel)
    /\ UNCHANGED <<models, finalizing, wsVars>>

\* interval callback, branch currentBatch < totalBatches
TickBatch(id) ==
    /\ IntervalMayFire(id)
    /\ TickLessThan(trainingProgress[id].currentBatch, trainingProgress[id].totalBatches)
    /\ LET p1 == [trainingProgress[id] EXCEPT !.currentBatch = NextBatch(@)]
           p2 == [p1 EXCEPT !.estimatedTimeRemaining = TimeRemaining(p1)]
       IN /\ trainingProgress' = [trainingProgress EXCEPT ![id] = p2]
          /\ events' = Emit(id, "trainingUpdate", p2)
    /\ settle' = [settle EXCEPT ![id] = IF @ >= 0 THEN @ + 1 ELSE @]
    /\ lastCall' = [op |-> "tick", id |-> id]
    /\ UNCHANGED <<models, creating, activeTraining, finalizing>>
    /\ wsOp' = NoOp
    /\ UNCHANGED wsVars

\* interval callback, else branch, epoch < totalEpochs after the increment
TickRollover(id) ==
    /\ IntervalMayFire(id)
    /\ ~ TickLessThan(trainingProgress[id].currentBatch, trainingProgress[id].totalBatches)
    /\ ~ EpochsDone(NextEpoch(trainingProgress[id].epoch), trainingProgress[id].totalEpochs)
    /\ LET p == [trainingProgress[id] EXCEPT !.epoch = NextEpoch(@), !.currentBatch = ResetBatch(@),
                                             !.status = "validating"]
       IN /\ trainingProgress' = [trainingProgress EXCEPT ![id] = p]
          /\ events' = Emit(id, "trainingUpdate", p)
    /\ settle' = [settle EXCEPT ![id] = 0]
    /\ lastCall' = [op |-> "tick", id |-> id]
    /\ UNCHANGED <<models, creating, activeTraining, finalizing>>
    /\ wsOp' = NoOp
    /\ UNCHANGED wsVars

\* interval callback, else branch, epoch >= totalEpochs: up to `await finalizeModel`
TickComplete(id) ==
    /\ IntervalMayFire(id)
    /\ ~ TickLessThan(trainingProgress[id].currentBatch, trainingProgress[id].totalBatches)
    /\ EpochsDone(NextEpoch(trainingProgress[id].epoch), trainingProgress[id].totalEpochs)
    /\ trainingProgress' = [trainingProgress EXCEPT ![id] =
           [@ EXCEPT !.epoch = NextEpoch(@), !.currentBatch = ResetBatch(@), !.status = "completed",
                     !.estimatedTimeRemaining = 0]]
    /\ activeTraining' = ClearInterval(activeTraining, id)
    /\ finalizing' = finalizing \cup {id}
    /\ lastCall' = [op |-> "tick", id |-> id]
    /\ UNCHANGED <<models, creating, settle, events>>
    /\ wsOp' = NoOp
    /\ UNCHANGED wsVars

\* the fields finalizeModel writes with storage.updateAiModel
FinalizedRecordInactive(m) == [m EXCEPT !.finalized = TRUE]
FinalizedRecord(m) == [m EXCEPT !.isActive = TRUE, !.finalized = TRUE]

\* finalizeModel's storage.updateAiModel and the emit after the await
Finalize(id) ==
    /\ id \in finalizing
    /\ finalizing' = finalizing \ {id}
    /\ IF id \in DOMAIN models
       THEN /\ models' = [models EXCEPT ![id] = FinalizedRecord(@)]
            /\ events' = Emit(id, "trainingComplete", trainingProgress[id])
       ELSE UNCHANGED <<models, events>>
    /\ lastCall' = [op |-> "finalize", id |-> id]
    /\ UNCHANGED <<creating, trainingProgress, activeTraining, settle>>
    /\ wsOp' = NoOp
    /\ UNCHANGED wsVars

\* the setTimeout callback of the validation phase
SettleStatus(id) == "training"

Settle(id) ==
    /\ id \in DOMAIN settle
    /\ settle[id] >= 0
    /\ id \in activeTraining => SettleDueBeforeTick(id)
    /\ LET p == [trainingProgress[id] EXCEPT !.status = SettleStatus(id)]
       IN /\ trainingProgress' = [trainingProgress EXCEPT ![id] = p]
          /\ events' = Emit(id, "trainingUpdate", p)
    /\ settle' = [settle EXCEPT ![id] = -1]
    /\ lastCall' = [op |-> "settle", id |-> id]
    /\ UNCHANGED <<models, creating, activeTraining, finalizing>>
    /\ wsOp' = NoOp
    /\ UNCHANGED wsVars

\* stopTraining(modelId): `const interval = this.activeTraining.get(modelId); if (interval)`
StopFoundByProgress(id) == id \in DOMAIN trainingProgress
StopFound(id) == id \in activeTraining

StopTraining(id) ==
    /\ wsOp' = NoOp
    /\ UNCHANGED wsVars
    /\ IF StopFound(id)
       THEN /\ activeTraining' = ClearInterval(activeTraining, id)
            /\ IF id \in DOMAIN trainingProgress
               THEN LET p == [trainingProgress[id] EXCEPT !.status = "failed"]
                    IN /\ trainingProgress' = [trainingProgress EXCEPT ![id] = p]
                       /\ events' = Emit(id, "trainingStopped", p)
               ELSE UNCHANGED <<trainingProgress, events>>
            /\ lastCall' = [op |-> "stopTraining", id |-> id, ret |-> TRUE]
            /\ UNCHANGED <<models, creating, settle, finalizing>>
       ELSE /\ lastCall' = [op |-> "stopTraining", id |-> id, ret |-> FALSE]
            /\ UNCHANGED <<models, creating, trainingProgress, activeTraining,
                           settle, finalizing, events>>

JobNext ==
    \/ \E cfg \in Configs(NewModelId) : StartTraining(cfg)
    \/ \E id \in JobIds : StartResume(id)
    \/ \E id \in JobIds : TickBatch(id)
    \/ \E id \in JobIds : TickRollover(id)
    \/ \E id \in JobIds : TickComplete(id)
    \/ \E id \in JobIds : Finalize(id)
    \/ \E id \in JobIds : Settle(id)
    \/ \E id \in JobIds : StopTraining(id)

Init == JobInit /\ WsInit

SpecJobs == Init /\ [][JobNext]_vars

\* one job, every configuration; the continuation of an interval callback
\* suspended at `await finalizeModel` is run by the event loop
OneJobNext ==
    \/ \E cfg \in FullConfigs : NewModelId = 1 /\ StartTraining(cfg)
    \/ StartResume(1)
    \/ TickBatch(1)
    \/ TickRollover(1)
    \/ TickComplete(1)
    \/ Finalize(1)
    \/ Settle(1)
    \/ StopTraining(1)

SpecJobFair == Init /\ [][OneJobNext]_vars /\ WF_vars(Finalize(1))

\* one job whose timers fire: the event loop runs every callback that is
\* due (the interval, the validation timeout) and every continuation
SpecJobLive ==
    /\ Init
    /\ [][OneJobNext]_vars
    /\ WF_vars(StartResume(1))
    /\ WF_vars(TickBatch(1))
    /\ WF_vars(TickRollover(1))
    /\ WF_vars(TickComplete(1))
    /\ WF_vars(Settle(1))
    /\ WF_vars(Finalize(1))

\* getAllActiveTraining(): `filter(p => p.status !== 'completed')`
ActiveFilterNonTerminal(p) == p.status \notin {"completed", "failed"}
ActiveFilter(p) == p.status # "completed"

GetAllActiveTraining ==
    /\ lastCall' = [op |-> "getAllActiveTraining",
                    ret |-> {trainingProgress[id] @@ [modelId |-> id] :
                               id \in {j \in DOMAIN trainingProgress :
                                          ActiveFilter(trainingProgress[j])}}]
    /\ wsOp' = NoOp
    /\ UNCHANGED <<models, creating, trainingProgress, activeTraining, settle,
                   finalizing, events, wsVars>>

\* generateModelMetrics(modelId): `if (!model) throw new Error('Model not found')`,
\* else a history of `model.parameters?.epochs || 50` epochs
MetricsForDefaulting(ms, id) ==
    IF id \notin DOMAIN ms
    THEN [threw |-> FALSE, epochs |-> 50]
    ELSE [threw |-> FALSE, epochs |-> IF ms[id].epochs = 0 THEN 50 ELSE ms[id].epochs]
MetricsFor(ms, id) ==
    IF id \notin DOMAIN ms
    THEN [threw |-> TRUE, error |-> "Model not found"]
    ELSE [threw |-> FALSE, epochs |-> IF ms[id].epochs = 0 THEN 50 ELSE ms[id].epochs]

\* the ids a caller may ask about: the last one never names a record
QueryIds == 1..(MaxJobs + 1)

GenerateModelMetrics(id) ==
    /\ lastCall' = [op |-> "generateModelMetrics", id |-> id,
                    ret |-> MetricsFor(models, id)]
    /\ wsOp' = NoOp
    /\ UNCHANGED <<models, creating, trainingProgress, activeTraining, settle,
                   finalizing, events, wsVars>>

\* the progress map when `await storage.createAiModel(modelData)` rejects:
\* startTraining rejects there, trainingProgress.set and simulateTraining
\* (lines 85-103) are not reached
AfterRejectedCreateSeeded(tp, id, cfg) ==
    tp @@ (id :> [status |-> "initializing", epoch |-> 0,
                  totalEpochs |-> cfg.epochs, currentBatch |-> 0,
                  totalBatches |-> Ceil(cfg.datasetSize, cfg.batchSize),
                  estimatedTimeRemaining |-> cfg.epochs * EpochEstimate])
AfterRejectedCreate(tp, id, cfg) == tp

\* startTraining whose createAiModel fails: the store adds no record
StartRejected(cfg) ==
    /\ trainingProgress' = AfterRejectedCreate(trainingProgress, NewModelId, cfg)
    /\ lastCall' = [op |-> "startRejected", id |-> NewModelId]
    /\ wsOp' = NoOp
    /\ UNCHANGED <<models, creating, activeTraining, settle, finalizing, events,
                   wsVars>>

\* the jobs started next to each other in the runs with queries
QueryConfigs == [epochs : {1, 2}, datasetSize : {10}, batchSize : {10}]

\* the jobs and the queries of their state
QueryNext ==
    \/ \E cfg \in QueryConfigs : StartTraining(cfg)
    \/ \E id \in JobIds : StartResume(id)
    \/ \E id \in JobIds : TickBatch(id)
    \/ \E id \in JobIds : TickRollover(id)
    \/ \E id \in JobIds : TickComplete(id)
    \/ \E id \in JobIds : Finalize(id)
    \/ \E id \in JobIds : Settle(id)
    \/ \E id \in JobIds : StopTraining(id)
    \/ GetAllActiveTraining
    \/ \E id \in QueryIds : GenerateModelMetrics(id)
    \/ \E cfg \in QueryConfigs : StartRejected(cfg)

SpecQueries == Init /\ [][QueryNext]_vars

\* ------------------------------------------------- WebSocketService actions
SocketIds == 1..MaxSockets

\* time passes; the heartbeat interval fires when it is due
AdvanceClock(d) ==
    /\ now + d <= nextBeat
    /\ now + d <= MaxTime
    /\ now' = now + d
    /\ wsOp' = NoOp
    /\ UNCHANGED <<nextBeat, sockets, clients, broken, jobVars>>

\* `{ ws, id: clientId, subscriptions: new Set(), lastPing: Date.now() }`
NewClientSubscribed(ws, t) == [ws |-> ws, subscriptions |-> {"all"}, lastPing |-> t]
NewClient(ws, t) == [ws |-> ws, subscriptions |-> {}, lastPing |-> t]

\* wss.on('connection'): register the client and send the welcome message
Accept(r) ==
    /\ Len(sockets) < MaxSockets
    /\ LET s == Len(sockets) + 1
           clientId == GenerateClientId(now, r)
           client == NewClient(s, now)
           socks == Append(sockets, [id |-> clientId, readyState |-> "OPEN",
                                     lastSignal |-> now, beats |-> 0])
           cl == (clientId :> client) @@ clients
       IN /\ sockets' = socks
          /\ clients' = cl
          /\ wsOp' = [op |-> "accept", socket |-> s, id |-> clientId,
                      sent |-> SendToClient(cl, socks, clientId, "connection")]
    /\ UNCHANGED <<now, nextBeat, broken, jobVars>>

\* ws.on('message') with {"type":"subscribe","channels":[...]}
Subscribe(s, channels) ==
    /\ s \in DOMAIN sockets
    /\ IsOpen(sockets, s)
    /\ LET clientId == sockets[s].id
       IN IF clientId \in DOMAIN clients
          THEN LET cl == [clients EXCEPT ![clientId].subscriptions =
                                                  AddChannels(@, channels)]
               IN /\ clients' = cl
                  /\ wsOp' = [op |-> "subscribe", socket |-> s, id |-> clientId,
                              requested |-> channels,
                              before |-> clients[clientId].subscriptions,
                              channels |-> ConfirmedChannels(cl[clientId], channels),
                              sent |-> SendToClient(cl, sockets, clientId,
                                                    "subscription_confirmed")]
          ELSE /\ clients' = clients
               /\ wsOp' = NoOp
    /\ UNCHANGED <<now, nextBeat, sockets, broken, jobVars>>

\* ws.on('message') with {"type":"unsubscribe","channels":[...]}
Unsubscribe(s, channels) ==
    /\ s \in DOMAIN sockets
    /\ IsOpen(sockets, s)
    /\ LET clientId == sockets[s].id
       IN IF clientId \in DOMAIN clients
          THEN /\ clients' = [clients EXCEPT ![clientId].subscriptions = @ \ channels]
               /\ wsOp' = NoOp
          ELSE /\ clients' = clients
               /\ wsOp' = NoOp
    /\ UNCHANGED <<now, nextBeat, sockets, broken, jobVars>>

\* the registry after console.error (message handler's catch) or
\* console.log (default case of handleClientMessage)
LoggedOnlyDeleting(cl, id) == Delete(cl, id)
LoggedOnly(cl, id) == cl

\* what a client can send that no case of handleClientMessage takes: text
\* that JSON.parse rejects, JSON without type, JSON with a type of no case
DroppedKinds == {"malformed", "missingType", "unknownType"}

\* ws.on('message') with such a message
DroppedMessage(s, kind) ==
    /\ s \in DOMAIN sockets
    /\ IsOpen(sockets, s)
    /\ clients' = LoggedOnly(clients, sockets[s].id)
    /\ wsOp' = [op |-> "dropped", socket |-> s, kind |-> kind, to |-> {}]
    /\ UNCHANGED <<now, nextBeat, sockets, broken, jobVars>>

\* ws.on('message') with {"type":"ping"}: answered with a pong message,
\* client.lastPing is left as it is
PingLastPing(client, t) == client.lastPing

PingMessage(s) ==
    /\ s \in DOMAIN sockets
    /\ IsOpen(sockets, s)
    /\ sockets' = [sockets EXCEPT ![s].lastSignal = now]
    /\ LET clientId == sockets[s].id
       IN IF clientId \in DOMAIN clients
          THEN /\ clients' = [clients EXCEPT ![clientId].lastPing =
                                  PingLastPing(clients[clientId], now)]
               /\ wsOp' = [op |-> "pingMessage", socket |-> s, id |-> clientId,
                           sent |-> SendToClient(clients, sockets, clientId, "pong")]
          ELSE /\ clients' = clients
               /\ wsOp' = NoOp
    /\ UNCHANGED <<now, nextBeat, broken, jobVars>>

\* ws.on('pong'): the peer answered a protocol ping
PongLastPing(client, t) == t

Pong(s) ==
    /\ s \in DOMAIN sockets
    /\ IsOpen(sockets, s)
    /\ sockets' = [sockets EXCEPT ![s].lastSignal = now]
    /\ LET clientId == sockets[s].id
       IN clients' = IF clientId \in DOMAIN clients
                     THEN [clients EXCEPT ![clientId].lastPing =
                               PongLastPing(clients[clientId], now)]
                     ELSE clients
    /\ wsOp' = NoOp
    /\ UNCHANGED <<now, nextBeat, broken, jobVars>>

\* the transport stops being OPEN before its 'close' event is delivered
TransportClosing(s) ==
    /\ s \in DOMAIN sockets
    /\ IsOpen(sockets, s)
    /\ sockets' = [sockets EXCEPT ![s].readyState = "CLOSING"]
    /\ wsOp' = NoOp
    /\ UNCHANGED <<now, nextBeat, clients, broken, jobVars>>

\* ws.on('close')
CloseEvent(s) ==
    /\ s \in DOMAIN sockets
    /\ sockets[s].readyState # "CLOSED"
    /\ sockets' = [sockets EXCEPT ![s].readyState = "CLOSED"]
    /\ clients' = Delete(clients, sockets[s].id)
    /\ wsOp' = NoOp
    /\ UNCHANGED <<now, nextBeat, broken, jobVars>>

\* ws.on('error'): the transport is closing from then on, its 'close' follows
ErrorEvent(s) ==
    /\ s \in DOMAIN sockets
    /\ sockets[s].readyState # "CLOSED"
    /\ sockets' = [sockets EXCEPT ![s].readyState = "CLOSING"]
    /\ clients' = Delete(clients, sockets[s].id)
    /\ wsOp' = NoOp
    /\ UNCHANGED <<now, nextBeat, broken, jobVars>>

\* one run of the heartbeat interval callback over all clients
Heartbeat ==
    /\ now = nextBeat
    /\ LET open == {c \in DOMAIN clients : IsOpen(sockets, clients[c].ws)}
           dead == {c \in open : Expired(now, clients[c].lastPing)}
           terminated == {clients[c].ws : c \in dead}
           pinged == {clients[c].ws : c \in open \ dead}
           seen == {clients[c].ws : c \in DOMAIN clients}
       IN /\ clients' = [c \in open \ dead |-> clients[c]]
          /\ sockets' = [s \in DOMAIN sockets |->
                           [sockets[s] EXCEPT
                              !.readyState = IF s \in terminated THEN "CLOSING" ELSE @,
                              !.beats = IF s \in seen THEN @ + 1 ELSE @]]
          /\ wsOp' = [op |-> "heartbeat", terminated |-> terminated,
                      pinged |-> pinged, removed |-> DOMAIN clients \ (open \ dead)]
    /\ nextBeat' = now + HeartbeatPeriod
    /\ UNCHANGED <<now, broken, jobVars>>

\* broadcast(type, data, channel) called by some producer
Broadcast(channel) ==
    /\ wsOp' = BroadcastOp(clients, sockets, "event", channel)
    /\ UNCHANGED <<wsVars, jobVars>>

\* the registry and the fan-out, at one instant of the clock
WsNext ==
    \/ \E s \in SocketIds, kind \in DroppedKinds : DroppedMessage(s, kind)
    \/ \E r \in Suffixes : Accept(r)
    \/ \E s \in SocketIds, chs \in SUBSET ChannelNames : Subscribe(s, chs)
    \/ \E s \in SocketIds, chs \in SUBSET ChannelNames : Unsubscribe(s, chs)
    \/ \E s \in SocketIds : TransportClosing(s)
    \/ \E s \in SocketIds : CloseEvent(s)
    \/ \E s \in SocketIds : ErrorEvent(s)
    \/ \E ch \in BroadcastChannels : Broadcast(ch)

SpecWs == Init /\ [][WsNext]_vars

\* the registry under the clock: liveness signals and the heartbeat
BeatNext ==
    \/ \E d \in Delays : AdvanceClock(d)
    \/ \E r \in Suffixes : Len(sockets) < MaxBeatSockets /\ Accept(r)
    \/ \E s \in SocketIds : PingMessage(s)
    \/ \E s \in SocketIds : Pong(s)
    \/ \E s \in SocketIds : TransportClosing(s)
    \/ \E s \in SocketIds : CloseEvent(s)
    \/ \E s \in SocketIds : ErrorEvent(s)
    \/ Heartbeat

SpecBeat == Init /\ [][BeatNext]_vars

\* a transport gets into a state in which send throws
BreakTransport(s) ==
    /\ s \in DOMAIN sockets
    /\ s \notin broken
    /\ broken' = broken \cup {s}
    /\ wsOp' = NoOp
    /\ UNCHANGED <<now, nextBeat, sockets, clients, jobVars>>

\* an id that generateClientId never issued
AbsentId == <<-1, 0>>

\* a caller of the service calls sendToClient(id, {type, data})
SendTo(id, type) ==
    /\ wsOp' = [op |-> "sendTo", id |-> id, requested |-> type,
                sent |-> SendToClient(clients, sockets, id, type)]
    /\ UNCHANGED <<wsVars, jobVars>>

\* the ids a caller may hold: every id issued so far and one never issued
KnownIds == {sockets[s].id : s \in DOMAIN sockets} \cup {AbsentId}

\* the registry and the fan-out with failing transports
FaultNext ==
    \/ \E id \in KnownIds, type \in {"event", NoType} : SendTo(id, type)
    \/ \E r \in Suffixes : Len(sockets) < MaxFaultSockets /\ Accept(r)
    \/ \E s \in SocketIds, chs \in SUBSET ChannelNames : Subscribe(s, chs)
    \/ \E s \in SocketIds, chs \in SUBSET ChannelNames : Unsubscribe(s, chs)
    \/ \E s \in SocketIds : TransportClosing(s)
    \/ \E s \in SocketIds : CloseEvent(s)
    \/ \E s \in SocketIds : ErrorEvent(s)
    \/ \E s \in SocketIds : BreakTransport(s)
    \/ \E ch \in BroadcastChannels : Broadcast(ch)

SpecFault == Init /\ [][FaultNext]_vars

\* ================================================================== claims
Terminal == {"completed", "failed"}
TerminalEvents == {"trainingComplete", "trainingStopped"}

LexLess(a, b) ==
    \/ a.epoch < b.epoch
    \/ a.epoch = b.epoch /\ a.currentBatch < b.currentBatch

SamePair(a, b) == a.epoch = b.epoch /\ a.currentBatch = b.currentBatch

LastEvent(id) == events[id][Len(events[id])]

StatusEdges ==
    {<<"initializing", "training">>, <<"training", "validating">>,
     <<"validating", "training">>, <<"training", "completed">>,
     <<"initializing", "failed">>, <<"training", "failed">>,
     <<"validating", "failed">>}

\* C1: a job's status changes only along the edges of the state machine,
\* becomes failed only in a stopTraining call, and never changes once it is
\* completed or failed.
C1_StatusEdges ==
    [][\A id \in DOMAIN trainingProgress :
          LET a == trainingProgress[id].status
              b == trainingProgress'[id].status
          IN a # b => /\ <<a, b>> \in StatusEdges
                      /\ b = "failed" => lastCall'.op = "stopTraining"
                      /\ a \notin Terminal]_vars

\* C2: the trainingComplete or trainingStopped event of a job is the last
\* event emitted for it: no event follows a terminal event.
C2_TerminalEventLast ==
    \A id \in DOMAIN events :
        \A i \in 1..(Len(events[id]) - 1) :
            events[id][i].name \notin TerminalEvents

\* C7 (as claimed): the (epoch, currentBatch) pairs of consecutive events of
\* one job are strictly increasing in lexicographic order.
C7_StrictlyIncreasing ==
    \A id \in DOMAIN events :
        \A i \in 1..(Len(events[id]) - 1) :
            LexLess(events[id][i], events[id][i + 1])

\* C7 (amended): the pairs of consecutive events never decrease, and two
\* consecutive events carry the same pair only when the later one is the
\* trainingStopped event or the return-to-training event of the validation
\* timeout (status training after an event with status validating or
\* failed); every event of an interval tick carries a strictly larger pair.
C7_NonDecreasingTicksStrict ==
    \A id \in DOMAIN events :
        \A i \in 1..(Len(events[id]) - 1) :
            LET a == events[id][i]
                b == events[id][i + 1]
            IN \/ LexLess(a, b)
               \/ /\ SamePair(a, b)
                  /\ \/ b.name = "trainingStopped"
                     \/ /\ b.name = "trainingUpdate"
                        /\ b.status = "training"
                        /\ a.status \in {"validating", "failed"}

\* a validating event directly followed by the return-to-training event
\* with the same pair, and later tick events after it
C7_Witness ==
    \E id \in DOMAIN events :
        \E i \in 1..(Len(events[id]) - 2) :
            /\ events[id][i].status = "validating"
            /\ events[id][i + 1].status = "training"
            /\ SamePair(events[id][i], events[id][i + 1])
            /\ LexLess(events[id][i + 1], events[id][i + 2])

\* C8: a job that runs to completion without being stopped has emitted a
\* lexicographically non-decreasing sequence of (epoch, currentBatch) pairs
\* whose last event is trainingComplete with status completed,
\* epoch = totalEpochs, currentBatch = 0 and estimatedTimeRemaining = 0.
C8_CompletedRun ==
    \A id \in DOMAIN trainingProgress :
        (trainingProgress[id].status = "completed" /\ id \notin finalizing) =>
            /\ \A i \in 1..(Len(events[id]) - 1) :
                   \/ LexLess(events[id][i], events[id][i + 1])
                   \/ SamePair(events[id][i], events[id][i + 1])
            /\ LastEvent(id).name = "trainingComplete"
            /\ LastEvent(id).status = "completed"
            /\ LastEvent(id).epoch = trainingProgress[id].totalEpochs
            /\ LastEvent(id).currentBatch = 0
            /\ LastEvent(id).estimatedTimeRemaining = 0

\* the run of the example: epochs = 3, totalBatches = 5, finished
C8_Witness ==
    \E id \in DOMAIN trainingProgress :
        /\ trainingProgress[id].totalEpochs = 3
        /\ trainingProgress[id].totalBatches = 5
        /\ trainingProgress[id].status = "completed"
        /\ id \notin finalizing
        /\ LastEvent(id).epoch = 3
        /\ Len(events[id]) = 1 + 3 * 5 + 2 * 2 + 1

\* C9: stopTraining returns true exactly when the job has a timer; it then
\* removes the timer, sets the status to failed and emits one
\* trainingStopped event; otherwise it returns false and changes nothing.
\* A stop right after a successful stop of the same job returns false, and
\* a stop of a completed or unknown job returns false.
C9_StopContract ==
    [][lastCall'.op = "stopTraining" =>
         LET id == lastCall'.id
         IN /\ lastCall'.ret = (id \in activeTraining)
            /\ lastCall'.ret =>
                 /\ activeTraining' = activeTraining \ {id}
                 /\ trainingProgress'[id].status = "failed"
                 /\ events'[id] = Append(events[id], Snapshot("trainingStopped", trainingProgress'[id]))
            /\ ~ lastCall'.ret =>
                 /\ trainingProgress' = trainingProgress
                 /\ activeTraining' = activeTraining
                 /\ events' = events
                 /\ settle' = settle
                 /\ models' = models
            /\ (lastCall.op = "stopTraining" /\ lastCall.id = id /\ lastCall.ret)
                 => ~ lastCall'.ret
            /\ (id \notin DOMAIN trainingProgress) => ~ lastCall'.ret
            /\ (id \in DOMAIN trainingProgress /\ trainingProgress[id].status = "completed")
                 => ~ lastCall'.ret]_vars

\* a second stop of a stopped job has just returned false
C9_Witness ==
    /\ lastCall.op = "stopTraining"
    /\ ~ lastCall.ret
    /\ lastCall.id \in DOMAIN trainingProgress
    /\ LastEvent(lastCall.id).name = "trainingStopped"

\* C10: 0 <= epoch <= totalEpochs and 0 <= currentBatch <= totalBatches for
\* every job in every reachable state.
C10_ProgressInRange ==
    \A id \in DOMAIN trainingProgress :
        /\ 0 <= trainingProgress[id].epoch
        /\ trainingProgress[id].epoch <= trainingProgress[id].totalEpochs
        /\ 0 <= trainingProgress[id].currentBatch
        /\ trainingProgress[id].currentBatch <= trainingProgress[id].totalBatches

\* the last batch of the last epoch is done and the interval is still armed
C10_Witness ==
    \E id \in activeTraining :
        /\ trainingProgress[id].currentBatch = trainingProgress[id].totalBatches
        /\ trainingProgress[id].epoch = trainingProgress[id].totalEpochs - 1
        /\ trainingProgress[id].totalBatches = 30

\* the registry entry of transport s, if it still has one
Registered(s) ==
    /\ sockets[s].id \in DOMAIN clients
    /\ clients[sockets[s].id].ws = s

\* C3: a broadcast on topic t reaches exactly the registered open
\* connections whose subscriptions contain t or "all"; a broadcast without
\* topic reaches every registered open connection.
C3_TopicFilter ==
    wsOp.op = "broadcast" =>
        LET open == {c \in DOMAIN clients : sockets[clients[c].ws].readyState = "OPEN"}
        IN IF wsOp.channel = NoChannel
           THEN wsOp.to = {clients[c].ws : c \in open}
           ELSE wsOp.to = {clients[c].ws :
                             c \in {d \in open :
                                      \/ wsOp.channel \in clients[d].subscriptions
                                      \/ "all" \in clients[d].subscriptions}}

\* the example: c1 subscribed to {x}, c2 to {all}, c3 to {}, all open, and a
\* broadcast on x has reached c1 and c2 only
C3_Witness ==
    /\ wsOp.op = "broadcast"
    /\ wsOp.channel = "x"
    /\ Len(sockets) = 3
    /\ \A s \in 1..3 : Registered(s) /\ sockets[s].readyState = "OPEN"
    /\ clients[sockets[1].id].subscriptions = {"x"}
    /\ clients[sockets[2].id].subscriptions = {"all"}
    /\ clients[sockets[3].id].subscriptions = {}
    /\ wsOp.to = {1, 2}

\* C4: the id assigned on accept is never the id of a connection that is
\* in the registry at that moment.
C4_FreshId ==
    [][Len(sockets') > Len(sockets) =>
          sockets'[Len(sockets')].id \notin DOMAIN clients]_vars

\* C5 (as claimed): a heartbeat tick that finds an open registered
\* connection with more than 30 s since its last recorded liveness
\* terminates the transport and removes the entry in that tick; and a
\* connection whose recorded liveness is never refreshed after the accept is
\* gone once three heartbeat ticks have processed it.
C5_EvictedWithinThreeBeats ==
    /\ [][nextBeat' # nextBeat =>
            \A c \in DOMAIN clients :
               (/\ sockets[clients[c].ws].readyState = "OPEN"
                /\ now - clients[c].lastPing > HeartbeatTimeout)
               => /\ c \notin DOMAIN clients'
                  /\ sockets'[clients[c].ws].readyState # "OPEN"]_vars
    /\ [](\A c \in DOMAIN clients :
             clients[c].lastPing = sockets[clients[c].ws].id[1]
             => sockets[clients[c].ws].beats <= 2)

\* C5 (amended): the same, with four heartbeat ticks: a connection accepted
\* at the instant of a heartbeat tick, before the tick runs, is exactly 30 s
\* old at the third tick, which is not more than 30 s.
C5_EvictedWithinFourBeats ==
    /\ [][nextBeat' # nextBeat =>
            \A c \in DOMAIN clients :
               (/\ sockets[clients[c].ws].readyState = "OPEN"
                /\ now - clients[c].lastPing > HeartbeatTimeout)
               => /\ c \notin DOMAIN clients'
                  /\ sockets'[clients[c].ws].readyState # "OPEN"]_vars
    /\ [](\A c \in DOMAIN clients :
             clients[c].lastPing = sockets[clients[c].ws].id[1]
             => sockets[clients[c].ws].beats <= 3)

\* the fourth heartbeat tick a silent connection saw has just terminated
\* and removed it
C5_Witness ==
    /\ wsOp.op = "heartbeat"
    /\ \E s \in wsOp.terminated :
          /\ sockets[s].readyState = "CLOSING"
          /\ ~ Registered(s)
          /\ sockets[s].lastSignal = sockets[s].id[1]
          /\ now - sockets[s].id[1] > HeartbeatTimeout
          /\ sockets[s].beats = 4

\* C6: the heartbeat does not evict an open registered connection from
\* which a liveness signal (a "ping" message or a pong reply) arrived within
\* the 30 s before the tick.
C6_SignalKeepsAlive ==
    [][nextBeat' # nextBeat =>
          \A c \in DOMAIN clients :
             (/\ sockets[clients[c].ws].readyState = "OPEN"
              /\ now - sockets[clients[c].ws].lastSignal <= HeartbeatTimeout)
             => c \in DOMAIN clients']_vars

\* the trainingComplete events in the log of a job
CompleteEvents(id) ==
    {i \in 1..Len(events[id]) : events[id][i].name = "trainingComplete"}

\* C11: the tick on which a job's epoch reaches totalEpochs removes the
\* timer, sets the status to completed and the estimate to 0; the model
\* record is updated (final metrics, isActive = true) before the completion
\* event, which is emitted exactly once; and every completed job eventually
\* has its completion event.
C11_Completion ==
    /\ [][\A id \in DOMAIN trainingProgress :
            (/\ trainingProgress[id].epoch < trainingProgress[id].totalEpochs
             /\ trainingProgress'[id].epoch >= trainingProgress[id].totalEpochs)
            => /\ id \notin activeTraining'
               /\ trainingProgress'[id].status = "completed"
               /\ trainingProgress'[id].estimatedTimeRemaining = 0]_vars
    /\ [](\A id \in DOMAIN trainingProgress :
            /\ Cardinality(CompleteEvents(id)) <= 1
            /\ CompleteEvents(id) # {} =>
                 /\ models[id].isActive
                 /\ models[id].finalized
                 /\ trainingProgress[id].status = "completed"
            /\ ~ models[id].finalized => ~ models[id].isActive)
    /\ \A id \in JobIds :
          (id \in DOMAIN trainingProgress /\ trainingProgress[id].status = "completed")
          ~> (id \in DOMAIN events /\ Cardinality(CompleteEvents(id)) = 1)

\* a completed job whose record is active and whose single completion
\* event is out
C11_Witness ==
    \E id \in DOMAIN trainingProgress :
        /\ trainingProgress[id].status = "completed"
        /\ id \notin activeTraining
        /\ id \notin finalizing
        /\ models[id].isActive
        /\ Cardinality(CompleteEvents(id)) = 1
        /\ LastEvent(id).name = "trainingComplete"

\* C12: every trainingUpdate event emitted for a job is also published with
\* websocketService.broadcast in the step that emits it.
C12_EveryEventBroadcast ==
    [][\A id \in DOMAIN events' :
          (/\ id \in DOMAIN events => Len(events'[id]) > Len(events[id])
           /\ events'[id][Len(events'[id])].name = "trainingUpdate")
          => /\ wsOp'.op = "broadcast"
             /\ wsOp'.type = "training_update"]_vars

\* the registered open connections a broadcast on the channel selects
Selected(channel) ==
    {clients[c].ws : c \in {d \in DOMAIN clients :
                              /\ sockets[clients[d].ws].readyState = "OPEN"
                              /\ \/ channel = NoChannel
                                 \/ channel \in clients[d].subscriptions
                                 \/ "all" \in clients[d].subscriptions}}

\* C13: a broadcast delivers to every selected connection whose own send
\* does not throw, whatever happens on the other connections, and leaves
\* the registry and the transports as they were.
C13_FailureIsolated ==
    [][wsOp'.op = "broadcast" =>
          /\ wsOp'.to = Selected(wsOp'.channel) \ broken
          /\ clients' = clients
          /\ sockets' = sockets
          /\ broken' = broken]_vars

\* a broadcast selected a connection whose send throws and delivered to
\* another one; the failing connection is still registered
C13_Witness ==
    /\ wsOp.op = "broadcast"
    /\ \E b \in Selected(wsOp.channel) \cap broken :
          /\ Registered(b)
          /\ \E s \in wsOp.to : s > b

\* C14: broadcast returns the number of connections the event was delivered
\* to (0 when no connection is subscribed to the channel or to "all").
C14_ReturnsCount ==
    wsOp.op = "broadcast" =>
        /\ wsOp.ret.defined
        /\ wsOp.ret.value = Cardinality(wsOp.to)

\* C15: subscribe is a set union on the subscriptions of the sending
\* connection and is idempotent: subscribing to T again changes nothing.
C15_SubscribeUnion ==
    [][wsOp'.op = "subscribe" =>
          LET id == wsOp'.id
              T == wsOp'.requested
          IN /\ clients'[id].subscriptions = clients[id].subscriptions \cup T
             /\ DOMAIN clients' = DOMAIN clients
             /\ \A c \in DOMAIN clients \ {id} : clients'[c] = clients[c]
             /\ AddChannels(clients'[id].subscriptions, T)
                    = clients'[id].subscriptions
             /\ (wsOp.op = "subscribe" /\ wsOp.id = id /\ wsOp.requested = T)
                    => clients' = clients]_vars

\* a connection subscribed to "x" and "all" subscribes to {"x"} again
C15_Witness ==
    /\ wsOp.op = "subscribe"
    /\ wsOp.requested = {"x"}
    /\ wsOp.before = {"x", "all"}
    /\ clients[wsOp.id].subscriptions = {"x", "all"}

\* C16: a subscribe message with a channel list from an open registered
\* connection is answered with one subscription_confirmed event, sent to
\* that connection only, that lists its complete subscription set after
\* the addition.
C16_ConfirmedFullSet ==
    (wsOp.op = "subscribe" /\ Registered(wsOp.socket)) =>
        /\ wsOp.sent.type = "subscription_confirmed"
        /\ wsOp.sent.to = {wsOp.socket}
        /\ wsOp.sent.ret
        /\ wsOp.channels = clients[wsOp.id].subscriptions
        /\ wsOp.channels = wsOp.before \cup wsOp.requested

\* a connection subscribed to "all" adds "x" and is told {"x", "all"}
C16_Witness ==
    /\ wsOp.op = "subscribe"
    /\ Registered(wsOp.socket)
    /\ wsOp.before = {"all"}
    /\ wsOp.requested = {"x"}
    /\ wsOp.channels = {"x", "all"}
    /\ wsOp.sent.to = {wsOp.socket}

\* C17: sendTo returns false and delivers nothing when the connection is
\* not in the registry or its transport is not open; otherwise it delivers
\* one event to that connection only, a missing type defaulted to
\* "unknown", and returns true, unless the send fails: then it returns false.
C17_SendToContract ==
    [][wsOp'.op = "sendTo" =>
          LET id == wsOp'.id
              sent == wsOp'.sent
          IN /\ UNCHANGED wsVars
             /\ IF id \notin DOMAIN clients
                THEN sent.to = {} /\ sent.ret = FALSE
                ELSE LET ws == clients[id].ws
                     IN IF sockets[ws].readyState # "OPEN" \/ ws \in broken
                        THEN sent.to = {} /\ sent.ret = FALSE
                        ELSE /\ sent.to = {ws}
                             /\ sent.ret = TRUE
                             /\ sent.type = IF wsOp'.requested = NoType
                                            THEN "unknown"
                                            ELSE wsOp'.requested]_vars

\* an event without type is delivered as "unknown" to one of two open
\* registered connections
C17_Witness ==
    /\ wsOp.op = "sendTo"
    /\ wsOp.requested = NoType
    /\ wsOp.sent.ret
    /\ wsOp.sent.type = "unknown"
    /\ \E s \in DOMAIN sockets \ wsOp.sent.to : Registered(s) /\ IsOpen(sockets, s)

\* transport s has its registry entry after the step
RegisteredAfter(s) ==
    /\ sockets'[s].id \in DOMAIN clients'
    /\ clients'[sockets'[s].id].ws = s

\* C18: a connection is in the registry from its acceptance until a close
\* event, an error event or a heartbeat eviction for it; no other step
\* takes a connection out of the registry, and a removal of an id that is
\* already gone leaves the registry as it is.
C18_RegisteredUntilRemoved ==
    [][/\ Len(sockets') > Len(sockets) => RegisteredAfter(Len(sockets'))
       /\ \A s \in DOMAIN sockets :
             (Registered(s) /\ ~ RegisteredAfter(s)) =>
                 CloseEvent(s) \/ ErrorEvent(s) \/ Heartbeat
       /\ \A s \in DOMAIN sockets :
             ((CloseEvent(s) \/ ErrorEvent(s)) /\ sockets[s].id \notin DOMAIN clients)
                 => clients' = clients]_vars

\* C19: a client message that is not JSON, or has an unknown or missing
\* type, is dropped: nothing is sent, the sender stays registered, and no
\* subscription set or liveness timestamp changes.
C19_Dropped ==
    [][wsOp'.op = "dropped" =>
          /\ wsOp'.to = {}
          /\ Registered(wsOp'.socket) => RegisteredAfter(wsOp'.socket)
          /\ DOMAIN clients' = DOMAIN clients
          /\ \A c \in DOMAIN clients :
                /\ clients'[c].subscriptions = clients[c].subscriptions
                /\ clients'[c].lastPing = clients[c].lastPing
          /\ sockets' = sockets]_vars

\* a registered connection with subscriptions sent text that is not JSON
C19_Witness ==
    /\ wsOp.op = "dropped"
    /\ wsOp.kind = "malformed"
    /\ Registered(wsOp.socket)
    /\ clients[sockets[wsOp.socket].id].subscriptions = {"x", "all"}

\* C20: every newly accepted connection, a reconnection included, enters
\* the registry with an empty subscription set and last-liveness = time of
\* acceptance, and is sent exactly one "connection" event with its own id.
C20_FreshConnection ==
    [][Len(sockets') > Len(sockets) =>
          LET s == Len(sockets')
              id == sockets'[s].id
          IN /\ id \in DOMAIN clients'
             /\ clients'[id].ws = s
             /\ clients'[id].subscriptions = {}
             /\ clients'[id].lastPing = now'
             /\ wsOp'.op = "accept"
             /\ wsOp'.id = id
             /\ wsOp'.sent = [type |-> "connection", to |-> {s}, ret |-> TRUE]]_vars

\* a connection accepted after an earlier one was closed, while another
\* connection holds subscriptions
C20_Witness ==
    /\ wsOp.op = "accept"
    /\ clients[wsOp.id].subscriptions = {}
    /\ \E e \in DOMAIN sockets : e < wsOp.socket /\ sockets[e].readyState = "CLOSED"
    /\ \E o \in DOMAIN sockets :
          /\ o # wsOp.socket
          /\ Registered(o)
          /\ clients[sockets[o].id].subscriptions = {"x", "all"}

\* the job of the example: epochs = 1, datasetSize = 10, batchSize = 10
ScenarioA(id) ==
    /\ id \in DOMAIN trainingProgress
    /\ trainingProgress[id].totalEpochs = 1
    /\ trainingProgress[id].totalBatches = 1

\* a job of the example never validates, and its record is active once the
\* completing tick has run to its end
ScenarioANeverValidates ==
    \A id \in DOMAIN trainingProgress :
        ScenarioA(id) =>
            /\ trainingProgress[id].status # "validating"
            /\ \A i \in 1..Len(events[id]) : events[id][i].status # "validating"
            /\ (trainingProgress[id].status = "completed" /\ id \notin finalizing)
                   => models[id].isActive

\* C21 (as claimed): with epochs = 1 and totalBatches = 1 the first timer
\* tick increments the epoch to 1 and completes the job; the job never
\* validates and its record is updated with isActive = true.
C21_CompletedAfterOneTick ==
    [][/\ \A id \in DOMAIN trainingProgress :
             (/\ ScenarioA(id)
              /\ Len(events[id]) = 1
              /\ lastCall'.op = "tick" /\ lastCall'.id = id)
                 => /\ trainingProgress'[id].epoch = 1
                    /\ trainingProgress'[id].status = "completed"
       /\ ScenarioANeverValidates']_vars

\* C21 (amended): the first tick is the batch tick (epoch 0, currentBatch 1,
\* status training), the second tick increments the epoch to 1 and
\* completes the job; the job never validates and its record is updated
\* with isActive = true.
C21_CompletedAfterTwoTicks ==
    /\ [][\A id \in DOMAIN trainingProgress :
             (ScenarioA(id) /\ lastCall'.op = "tick" /\ lastCall'.id = id)
                 => IF Len(events[id]) = 1
                    THEN /\ trainingProgress'[id].epoch = 0
                         /\ trainingProgress'[id].currentBatch = 1
                         /\ trainingProgress'[id].status = "training"
                    ELSE /\ Len(events[id]) = 2
                         /\ trainingProgress'[id].epoch = 1
                         /\ trainingProgress'[id].currentBatch = 0
                         /\ trainingProgress'[id].status = "completed"
                         /\ id \notin activeTraining']_vars
    /\ []ScenarioANeverValidates

\* the job of the example is completed and finalized after its two ticks
C21_Witness ==
    \E id \in DOMAIN trainingProgress :
        /\ ScenarioA(id)
        /\ trainingProgress[id].status = "completed"
        /\ trainingProgress[id].epoch = 1
        /\ id \notin finalizing
        /\ models[id].isActive
        /\ Len(events[id]) = 3

\* C22: start(config) creates one ModelRecord with isActive = false,
\* returns the id of that record, and leaves one JobProgress for that id
\* with epoch = 0, currentBatch = 0, totalEpochs = epochs and totalBatches
\* the least n with n * batchSize >= datasetSize; the first event emitted
\* for the job has status training.
C22_StartContract ==
    [][/\ lastCall'.op = "startTraining" =>
             LET id == lastCall'.id
             IN /\ id \notin DOMAIN models
                /\ DOMAIN models' = DOMAIN models \cup {id}
                /\ \A m \in DOMAIN models : models'[m] = models[m]
                /\ ~ models'[id].isActive
                /\ trainingProgress' = trainingProgress
                /\ events' = events
       /\ lastCall'.op = "startResume" =>
             LET id == lastCall'.id
                 cfg == creating[id]
                 p == trainingProgress'[id]
             IN /\ id \in DOMAIN models
                /\ models' = models
                /\ ~ models[id].isActive
                /\ id \notin DOMAIN trainingProgress
                /\ DOMAIN trainingProgress' = DOMAIN trainingProgress \cup {id}
                /\ \A j \in DOMAIN trainingProgress :
                      trainingProgress'[j] = trainingProgress[j]
                /\ p.epoch = 0
                /\ p.currentBatch = 0
                /\ p.totalEpochs = cfg.epochs
                /\ p.totalBatches * cfg.batchSize >= cfg.datasetSize
                /\ (p.totalBatches - 1) * cfg.batchSize < cfg.datasetSize
                /\ id \notin DOMAIN events
                /\ Len(events'[id]) = 1
                /\ events'[id][1].status = "training"]_vars

\* a start with datasetSize = 15, batchSize = 10 has just returned
C22_Witness ==
    /\ lastCall.op = "startResume"
    /\ trainingProgress[lastCall.id].totalBatches = 2
    /\ trainingProgress[lastCall.id].currentBatch = 0
    /\ Len(events[lastCall.id]) = 1

\* the jobs that stopTraining stopped
Stopped ==
    {id \in DOMAIN events :
        \E i \in 1..Len(events[id]) : events[id][i].name = "trainingStopped"}

\* C23: activeJobs() returns exactly the JobProgress records of the started
\* jobs whose status is not completed; a stopped job is in the result of
\* every later call, a completed job in none.
C23_ActiveJobs ==
    lastCall.op = "getAllActiveTraining" =>
        /\ lastCall.ret =
              {trainingProgress[id] @@ [modelId |-> id] :
                 id \in {j \in DOMAIN trainingProgress :
                           trainingProgress[j].status # "completed"}}
        /\ \A id \in Stopped : \E p \in lastCall.ret : p.modelId = id
        /\ \A id \in DOMAIN trainingProgress :
              (\E i \in 1..Len(events[id]) : events[id][i].status = "completed")
                  => ~ \E p \in lastCall.ret : p.modelId = id

\* a call that returns a stopped job and leaves out a completed one
C23_Witness ==
    /\ lastCall.op = "getAllActiveTraining"
    /\ \E p \in lastCall.ret : p.status = "failed"
    /\ \E id \in DOMAIN trainingProgress :
          /\ trainingProgress[id].status = "completed"
          /\ ~ \E p \in lastCall.ret : p.modelId = id

\* C24: metricsReport(jobId) for a job id without ModelRecord fails with
\* the not-found error and changes no job progress, timer or model record.
C24_MetricsNotFound ==
    [][(lastCall'.op = "generateModelMetrics" /\ lastCall'.id \notin DOMAIN models) =>
          /\ lastCall'.ret.threw
          /\ lastCall'.ret.error = "Model not found"
          /\ trainingProgress' = trainingProgress
          /\ activeTraining' = activeTraining
          /\ settle' = settle
          /\ models' = models
          /\ events' = events]_vars

\* the report of an id without record was asked for while a job is running
\* and another id has a record
C24_Witness ==
    /\ lastCall.op = "generateModelMetrics"
    /\ lastCall.id \notin DOMAIN models
    /\ lastCall.ret.threw
    /\ activeTraining # {}
    /\ DOMAIN models # {}

\* C25: a timer tick increments a job's currentBatch only while the job's
\* status is training; while the status is validating no tick changes
\* currentBatch, whatever totalBatches is.
C25_TicksOnlyWhileTraining ==
    [][\A id \in DOMAIN trainingProgress :
          (lastCall'.op = "tick" /\ lastCall'.id = id) =>
              /\ trainingProgress'[id].currentBatch > trainingProgress[id].currentBatch
                    => trainingProgress[id].status = "training"
              /\ trainingProgress[id].status = "validating"
                    => trainingProgress'[id].currentBatch
                         = trainingProgress[id].currentBatch]_vars

\* C26: after stop(jobId) has returned true no interval tick runs for the
\* job: its epoch, currentBatch and estimatedTimeRemaining never change
\* again and its ModelRecord is never finalized.
C26_NoTickAfterStop ==
    /\ [][\A id \in Stopped :
             /\ ~ (lastCall'.op = "tick" /\ lastCall'.id = id)
             /\ trainingProgress'[id].epoch = trainingProgress[id].epoch
             /\ trainingProgress'[id].currentBatch = trainingProgress[id].currentBatch
             /\ trainingProgress'[id].estimatedTimeRemaining
                   = trainingProgress[id].estimatedTimeRemaining
             /\ models'[id] = models[id]]_vars
    /\ [](\A id \in Stopped :
             /\ id \notin activeTraining
             /\ id \notin finalizing
             /\ ~ models[id].finalized
             /\ ~ models[id].isActive)

\* a job stopped in its validation phase, after the validation timeout has
\* run and while another job is ticking
C26_Witness ==
    \E id \in Stopped :
        /\ LastEvent(id).name = "trainingUpdate"
        /\ SamePair(LastEvent(id), trainingProgress[id])
        /\ \E j \in activeTraining : trainingProgress[j].currentBatch > 0

\* C27: a job whose status is completed or failed has no entry in the set
\* of active job timers, and the entry of a job is never added again once
\* it has been removed.
C27_TerminalHasNoTimer ==
    /\ [](\A id \in DOMAIN trainingProgress :
             trainingProgress[id].status \in Terminal => id \notin activeTraining)
    /\ [][\A id \in DOMAIN trainingProgress :
             id \notin activeTraining => id \notin activeTraining']_vars

\* one job is completed, one was stopped, and no timer is left
C27_Witness ==
    /\ \E id \in DOMAIN trainingProgress : trainingProgress[id].status = "completed"
    /\ \E id \in DOMAIN trainingProgress : trainingProgress[id].status = "failed"
    /\ activeTraining = {}

\* the subscription set of registered transport s
SubscriptionsOf(s) == clients[sockets[s].id].subscriptions

\* C28: a subscribe or unsubscribe message from connection c changes only
\* c's subscription set (union, difference); the other connections' sets
\* and timestamps and the registry membership stay, and nothing but c's own
\* messages ever changes c's subscriptions.
C28_OwnMessagesOnly ==
    [][/\ \A c \in DOMAIN sockets :
             (/\ Registered(c)
              /\ RegisteredAfter(c)
              /\ clients'[sockets[c].id].subscriptions # SubscriptionsOf(c))
                 => \E T \in SUBSET ChannelNames : Subscribe(c, T) \/ Unsubscribe(c, T)
       /\ \A c \in DOMAIN sockets, T \in SUBSET ChannelNames :
             (Subscribe(c, T) \/ Unsubscribe(c, T)) =>
                 /\ DOMAIN clients' = DOMAIN clients
                 /\ \A d \in DOMAIN clients :
                       /\ clients'[d].lastPing = clients[d].lastPing
                       /\ clients'[d].ws = clients[d].ws
                       /\ d # sockets[c].id => clients'[d] = clients[d]
                 /\ sockets[c].id \in DOMAIN clients =>
                       \/ clients'[sockets[c].id].subscriptions
                             = clients[sockets[c].id].subscriptions \cup T
                       \/ clients'[sockets[c].id].subscriptions
                             = clients[sockets[c].id].subscriptions \ T]_vars

\* C29: a job has an active timer if and only if its status is training or
\* validating, under every interleaving of ticks, validation timeouts and
\* stop calls.
C29_TimerIffRunning ==
    \A id \in DOMAIN trainingProgress :
        (id \in activeTraining)
            <=> (trainingProgress[id].status \in {"training", "validating"})

\* interval ticks a job has had: each epoch that is over took
\* totalBatches batch ticks and one rollover tick
TicksDone(p) == p.epoch * (p.totalBatches + 1) + p.currentBatch

\* C30: every started job that is never stopped eventually reaches status
\* completed, after exactly totalEpochs * (totalBatches + 1) interval
\* ticks: totalBatches batch ticks and one rollover tick per epoch.
C30_CompletesAfterTicks ==
    /\ [][\A id \in DOMAIN trainingProgress :
             IF lastCall'.op = "tick" /\ lastCall'.id = id
             THEN TicksDone(trainingProgress'[id]) = TicksDone(trainingProgress[id]) + 1
             ELSE TicksDone(trainingProgress'[id]) = TicksDone(trainingProgress[id])]_vars
    /\ [](\A id \in DOMAIN trainingProgress :
             LET p == trainingProgress[id]
             IN /\ Len(events[id]) = 1 => TicksDone(p) = 0
                /\ (p.status = "completed")
                      <=> (TicksDone(p) = p.totalEpochs * (p.totalBatches + 1)))
    /\ (1 \in DOMAIN creating)
          ~> (/\ 1 \in DOMAIN trainingProgress
              /\ \/ trainingProgress[1].status = "completed"
                 \/ 1 \in Stopped)

\* a job with 30 batches per epoch is completed after 2 * 31 ticks
C30_Witness ==
    \E id \in DOMAIN trainingProgress :
        /\ trainingProgress[id].status = "completed"
        /\ trainingProgress[id].totalEpochs = 2
        /\ trainingProgress[id].totalBatches = 30
        /\ TicksDone(trainingProgress[id]) = 62
        /\ id \notin Stopped

\* the remaining-batch count of the time estimate
BatchesRemaining(p) ==
    (p.totalEpochs - p.epoch - 1) * p.totalBatches + (p.totalBatches - p.currentBatch)

\* C31: the remaining-batch count from which estimatedTimeRemaining is
\* computed is never negative, decreases by exactly one on every batch
\* tick, epoch rollovers in between included, and is 0 at the last batch
\* tick of the last epoch; estimatedTimeRemaining never increases.
C31_RemainingCountsDown ==
    /\ [][\A id \in DOMAIN trainingProgress :
             LET p == trainingProgress[id]
                 q == trainingProgress'[id]
             IN /\ q.estimatedTimeRemaining <= p.estimatedTimeRemaining
                /\ (lastCall'.op = "tick" /\ lastCall'.id = id) =>
                      IF q.currentBatch = p.currentBatch + 1
                      THEN /\ BatchesRemaining(q) = BatchesRemaining(p) - 1
                           /\ q.estimatedTimeRemaining * q.totalBatches * 1000
                                 = BatchesRemaining(q) * EpochDuration
                           /\ (q.epoch = q.totalEpochs - 1 /\ q.currentBatch = q.totalBatches)
                                 => BatchesRemaining(q) = 0
                      ELSE BatchesRemaining(q) = BatchesRemaining(p)]_vars
    /\ [](\A id \in DOMAIN trainingProgress :
             LET p == trainingProgress[id]
             IN /\ BatchesRemaining(p) >= 0
                /\ Len(events[id]) = 1 =>
                      BatchesRemaining(p) = p.totalEpochs * p.totalBatches
                /\ BatchesRemaining(p) = 0 =>
                      \/ p.epoch = p.totalEpochs
                      \/ p.epoch = p.totalEpochs - 1 /\ p.currentBatch = p.totalBatches)

\* the first batch tick after the first rollover of a job with 3 epochs of
\* 5 batches: 9 batches remain, 216 s
C31_Witness ==
    \E id \in DOMAIN trainingProgress :
        /\ trainingProgress[id].totalEpochs = 3
        /\ trainingProgress[id].totalBatches = 5
        /\ trainingProgress[id].epoch = 1
        /\ trainingProgress[id].currentBatch = 1
        /\ BatchesRemaining(trainingProgress[id]) = 9
        /\ trainingProgress[id].estimatedTimeRemaining = 216
        /\ lastCall.op = "tick"

\* what the service holds for job k: record, pending start, progress,
\* timer, validation timeout, pending completion and emitted events
JobView(k, ms, cr, tp, at, st, fin, ev) ==
    [model |-> IF k \in DOMAIN ms THEN <<ms[k]>> ELSE <<>>,
     creating |-> IF k \in DOMAIN cr THEN <<cr[k]>> ELSE <<>>,
     progress |-> IF k \in DOMAIN tp THEN <<tp[k]>> ELSE <<>>,
     timer |-> k \in at,
     settle |-> IF k \in DOMAIN st THEN <<st[k]>> ELSE <<>>,
     finalizing |-> k \in fin,
     events |-> IF k \in DOMAIN ev THEN ev[k] ELSE <<>>]

\* C32: jobs are independent: a start, tick, validation timeout, completion
\* or stop of job j changes only what the service holds for j; progress,
\* timer and event sequence of every other job stay as they are, in every
\* interleaving of the jobs' timers.
C32_JobsIndependent ==
    [][\A k \in JobIds :
          k # lastCall'.id =>
              JobView(k, models', creating', trainingProgress', activeTraining',
                      settle', finalizing', events')
                = JobView(k, models, creating, trainingProgress, activeTraining,
                          settle, finalizing, events)]_vars

\* one job has just been stopped while another one, in its validation
\* phase, keeps its timer
C32_Witness ==
    /\ lastCall.op = "stopTraining"
    /\ lastCall.ret
    /\ \E k \in activeTraining :
          /\ k # lastCall.id
          /\ trainingProgress[k].status = "validating"
          /\ settle[k] >= 0

\* C33: if creating the ModelRecord fails, start fails and leaves the
\* service unchanged: no JobProgress, no timer and no event for any job
\* id; a JobProgress entry exists only for ids of created records.
C33_FailedCreateLeavesNothing ==
    /\ [][lastCall'.op = "startRejected" =>
             /\ trainingProgress' = trainingProgress
             /\ activeTraining' = activeTraining
             /\ settle' = settle
             /\ events' = events
             /\ creating' = creating
             /\ finalizing' = finalizing
             /\ models' = models
             /\ wsOp' = NoOp]_vars
    /\ [](/\ DOMAIN trainingProgress \subseteq DOMAIN models
          /\ activeTraining \subseteq DOMAIN models
          /\ DOMAIN events \subseteq DOMAIN models
          /\ DOMAIN settle \subseteq DOMAIN models)

\* a start has just failed while an earlier job is running, and the id the
\* store would have assigned has no progress, timer or events
C33_Witness ==
    /\ lastCall.op = "startRejected"
    /\ activeTraining # {}
    /\ lastCall.id \notin DOMAIN models
    /\ lastCall.id \notin DOMAIN trainingProgress
    /\ lastCall.id \notin DOMAIN events

====
